---- MODULE Spec2Model ----
(***************************************************************************)
(* PriceWise: the unit normaliser (utils/unitConverter.ts), the ranking    *)
(* view of App (sortedItems, bestRate, isBest, percentageDiff) and the     *)
(* event handlers that change the item collection (handleCapture,          *)
(* processSingleImage, updateItem, removeItem, handleReset, toggleScale),  *)
(* together with the CameraView and PriceCard handlers that call them.     *)
(*                                                                         *)
(* App is modelled from the second App component of src/unnamed/part_001   *)
(* (lines 192-391), the revision with the API-key handling.  Presentation  *)
(* state that no handler of the item collection reads is left out: hasKey  *)
(* (the API-key banner), imageUrl and brand of an item, showBrand and the  *)
(* camera stream.  isEditing of a card is not a variable: the pen button   *)
(* can always set it, so the form counts as shown for every item that is   *)
(* not analyzing.                                                          *)
(*                                                                         *)
(* Numbers.  A JavaScript number is a pair <<n, d>>: the rational n/d when *)
(* d > 0 (kept in lowest terms), +Infinity = <<1,0>>, -Infinity = <<-1,0>>,*)
(* NaN = <<0,0>>.  With this representation the arithmetic below gives     *)
(* the IEEE-754 results for division by zero, Infinity - Infinity and NaN  *)
(* propagation; rounding of finite results is not modelled (the rationals  *)
(* are exact).  `undefined` and `null` in a numeric position are the pairs *)
(* <<0,-1>> and <<0,-2>>.                                                  *)
(***************************************************************************)
EXTENDS Integers, Sequences, FiniteSets, TLC

(* ------------------------------ bounds -------------------------------- *)

\* number of items ever created in one behaviour (ids 1..MaxItems)
MaxItems == 3

\* number of images of one file-picker batch
MaxBatch == 2

(* --------------------------- JavaScript numbers ----------------------- *)

NaN == <<0, 0>>
Infinity == <<1, 0>>
undefinedNum == <<0, -1>>
nullNum == <<0, -2>>

AbsInt(i) == IF i < 0 THEN 0 - i ELSE i

SignInt(i) == IF i < 0 THEN 0 - 1 ELSE IF i > 0 THEN 1 ELSE 0

RECURSIVE Gcd(_, _)
Gcd(a, b) == IF b = 0 THEN a ELSE Gcd(b, a % b)

\* lowest terms, positive denominator; d = 0 keeps only the sign of n
Norm(n, d) ==
    IF d = 0 THEN <<SignInt(n), 0>>
    ELSE IF n = 0 THEN <<0, 1>>
    ELSE LET g == Gcd(AbsInt(n), AbsInt(d))
             s == SignInt(d)
         IN  <<(s * n) \div g, (s * d) \div g>>

Num(n) == <<n, 1>>

Frac(n, d) == Norm(n, d)

\* ToNumber: undefined converts to NaN
ToNumber(x) == IF x = undefinedNum THEN NaN ELSE x

IsNaN(x) == x = NaN

IsFinite(x) == x[2] > 0

\* x * y, cancelling across before multiplying
Mul(x0, y0) ==
    LET x == ToNumber(x0)
        y == ToNumber(y0)
    IN  IF x[2] = 0 \/ y[2] = 0 \/ x[1] = 0 \/ y[1] = 0
        THEN Norm(x[1] * y[1], x[2] * y[2])
        ELSE LET g1 == Gcd(AbsInt(x[1]), y[2])
                 g2 == Gcd(AbsInt(y[1]), x[2])
             IN  Norm((x[1] \div g1) * (y[1] \div g2), (x[2] \div g2) * (y[2] \div g1))

\* x / y (operands are never negative here, so 1/0 is +Infinity)
Div(x0, y0) ==
    LET y == ToNumber(y0)
    IN  Mul(x0, <<y[2], y[1]>>)

\* x - y, over the least common denominator
Sub(x0, y0) ==
    LET x == ToNumber(x0)
        y == ToNumber(y0)
    IN  IF x[2] = 0 \/ y[2] = 0
        THEN Norm(x[1] * y[2] - y[1] * x[2], x[2] * y[2])
        ELSE LET g == Gcd(x[2], y[2])
             IN  Norm(x[1] * (y[2] \div g) - y[1] * (x[2] \div g), (x[2] \div g) * y[2])

Abs(x) == <<AbsInt(x[1]), x[2]>>

\* x < y; false when either is NaN
Lt(x, y) ==
    /\ ~IsNaN(x)
    /\ ~IsNaN(y)
    /\ IF x[2] = 0 /\ y[2] = 0 THEN x[1] < y[1]
       ELSE IF x[2] = 0 \/ y[2] = 0 THEN x[1] * y[2] < y[1] * x[2]
       ELSE LET g == Gcd(x[2], y[2])
            IN  x[1] * (y[2] \div g) < y[1] * (x[2] \div g)

Gt(x, y) == Lt(y, x)

\* truthiness of a number-or-undefined-or-null: 0, NaN, undefined, null are falsy
Truthy(x) == x[1] # 0

\* a || b
OrElse(a, b) == IF Truthy(a) THEN a ELSE b

(* ------------------------------ strings ------------------------------- *)

\* `undefined` in a string position (a missing property)
undefined == "undefined"

\* String.prototype.toLowerCase on the unit strings that occur
toLowerCase(s) ==
    CASE s = " Kg " -> " kg "
      [] s = "L" -> "l"
      [] s = "Fl Oz" -> "fl oz"
      [] s = "Lbs" -> "lbs"
      [] s = "G" -> "g"
      [] s = "GRAM" -> "gram"
      [] s = "GRAMS" -> "grams"
      [] s = "KG" -> "kg"
      [] s = "KILOGRAM" -> "kilogram"
      [] s = "KILOGRAMS" -> "kilograms"
      [] s = "KILO" -> "kilo"
      [] s = "OZ" -> "oz"
      [] s = "OUNCE" -> "ounce"
      [] s = "OUNCES" -> "ounces"
      [] s = "LB" -> "lb"
      [] s = "LBS" -> "lbs"
      [] s = "POUND" -> "pound"
      [] s = "POUNDS" -> "pounds"
      [] s = "ML" -> "ml"
      [] s = "MILLILITER" -> "milliliter"
      [] s = "MILLILITERS" -> "milliliters"
      [] s = "LITER" -> "liter"
      [] s = "LITERS" -> "liters"
      [] s = "LITRE" -> "litre"
      [] s = "FL OZ" -> "fl oz"
      [] s = "FLOZ" -> "floz"
      [] s = "FLUID OUNCE" -> "fluid ounce"
      [] s = " KG " -> " kg "
      [] s = "EACH" -> "each"
      [] s = "BUNCH" -> "bunch"
      [] s = "KGS" -> "kgs"
      [] OTHER -> s

\* String.prototype.trim
trim(s) ==
    CASE s = " Kg " -> "Kg"
      [] s = " KG " -> "KG"
      [] s = " kg " -> "kg"
      [] OTHER -> s

\* String.prototype.toUpperCase
toUpperCase(s) ==
    CASE s = "g" -> "G"
      [] s = "gram" -> "GRAM"
      [] s = "grams" -> "GRAMS"
      [] s = "kg" -> "KG"
      [] s = "kilogram" -> "KILOGRAM"
      [] s = "kilograms" -> "KILOGRAMS"
      [] s = "kilo" -> "KILO"
      [] s = "oz" -> "OZ"
      [] s = "ounce" -> "OUNCE"
      [] s = "ounces" -> "OUNCES"
      [] s = "lb" -> "LB"
      [] s = "lbs" -> "LBS"
      [] s = "pound" -> "POUND"
      [] s = "pounds" -> "POUNDS"
      [] s = "ml" -> "ML"
      [] s = "milliliter" -> "MILLILITER"
      [] s = "milliliters" -> "MILLILITERS"
      [] s = "l" -> "L"
      [] s = "liter" -> "LITER"
      [] s = "liters" -> "LITERS"
      [] s = "litre" -> "LITRE"
      [] s = "fl oz" -> "FL OZ"
      [] s = "floz" -> "FLOZ"
      [] s = "fluid ounce" -> "FLUID OUNCE"
      [] s = " Kg " -> " KG "
      [] s = "Fl Oz" -> "FL OZ"
      [] s = "Lbs" -> "LBS"
      [] s = "each" -> "EACH"
      [] s = "bunch" -> "BUNCH"
      [] s = "kgs" -> "KGS"
      [] s = " kg " -> " KG "
      [] s = "rice" -> "RICE"
      [] s = "dust" -> "DUST"
      [] s = "item" -> "ITEM"
      [] OTHER -> s

(* ------------------- unitConverter.ts: getNormalizedData -------------- *)

OzInGrams == Frac(283495, 10000)

LbInGrams == Frac(453592, 1000)

FlOzInMl == Frac(295735, 10000)

\* the quantity in grams, or nullNum when the unit is no weight synonym
weightInGrams(quantity, u) ==
    IF u \in {"g", "gram", "grams"} THEN ToNumber(quantity)
    ELSE IF u \in {"kg", "kilogram", "kilograms", "kilo"} THEN Mul(quantity, Num(1000))
    ELSE IF u \in {"oz", "ounce", "ounces"} THEN Mul(quantity, OzInGrams)
    ELSE IF u \in {"lb", "lbs", "pound", "pounds"} THEN Mul(quantity, LbInGrams)
    ELSE nullNum

\* the quantity in millilitres, or nullNum; tried only when no weight synonym matched
volumeInMl(quantity, u) ==
    IF weightInGrams(quantity, u) # nullNum THEN nullNum
    ELSE IF u \in {"ml", "milliliter", "milliliters"} THEN ToNumber(quantity)
    ELSE IF u \in {"l", "liter", "liters", "litre"} THEN Mul(quantity, Num(1000))
    ELSE IF u \in {"fl oz", "floz", "fluid ounce"} THEN Mul(quantity, FlOzInMl)
    ELSE nullNum

\* getNormalizedData whose per-kilogram and per-litre rates use the factor 100
getNormalizedData_largeFactor(price, quantity, unit) ==
    LET u == trim(toLowerCase(unit))
        w == weightInGrams(quantity, u)
        v == volumeInMl(quantity, u)
        count == quantity
    IN  IF w # nullNum
        THEN [category |-> "weight",
              rates |-> [k \in {"100G", "1KG", "1LB"} |->
                           CASE k = "100G" -> Mul(Div(price, w), Num(100))
                             [] k = "1KG" -> Mul(Div(price, w), Num(100))
                             [] k = "1LB" -> Mul(Div(price, w), LbInGrams)]]
        ELSE IF v # nullNum
        THEN [category |-> "volume",
              rates |-> [k \in {"100ML", "1L", "FL OZ"} |->
                           CASE k = "100ML" -> Mul(Div(price, v), Num(100))
                             [] k = "1L" -> Mul(Div(price, v), Num(100))
                             [] k = "FL OZ" -> Mul(Div(price, v), FlOzInMl)]]
        ELSE [category |-> "count",
              rates |-> [k \in {"UNIT", "DOZEN"} |->
                           CASE k = "UNIT" -> Div(price, OrElse(count, Num(1)))
                             [] k = "DOZEN" -> Mul(Div(price, OrElse(count, Num(1))), Num(12))]]

\* getNormalizedData(price, quantity, unit) for a string unit: category and rate table
getNormalizedData(price, quantity, unit) ==
    LET u == trim(toLowerCase(unit))
        w == weightInGrams(quantity, u)
        v == volumeInMl(quantity, u)
        count == quantity
    IN  IF w # nullNum
        THEN [category |-> "weight",
              rates |-> [k \in {"100G", "1KG", "1LB"} |->
                           CASE k = "100G" -> Mul(Div(price, w), Num(100))
                             [] k = "1KG" -> Mul(Div(price, w), Num(1000))
                             [] k = "1LB" -> Mul(Div(price, w), LbInGrams)]]
        ELSE IF v # nullNum
        THEN [category |-> "volume",
              rates |-> [k \in {"100ML", "1L", "FL OZ"} |->
                           CASE k = "100ML" -> Mul(Div(price, v), Num(100))
                             [] k = "1L" -> Mul(Div(price, v), Num(1000))
                             [] k = "FL OZ" -> Mul(Div(price, v), FlOzInMl)]]
        ELSE [category |-> "count",
              rates |-> [k \in {"UNIT", "DOZEN"} |->
                           CASE k = "UNIT" -> Div(price, OrElse(count, Num(1)))
                             [] k = "DOZEN" -> Mul(Div(price, OrElse(count, Num(1))), Num(12))]]

\* getDisplayRate(rates, scale, category): the rate and its label
getDisplayRate(rates, sc, category) ==
    LET at(k) == IF k \in DOMAIN rates THEN rates[k] ELSE undefinedNum
    IN  IF category = "weight"
        THEN IF sc = "large" THEN [rate |-> at("1KG"), label |-> "1KG"]
             ELSE [rate |-> at("100G"), label |-> "100G"]
        ELSE IF category = "volume"
        THEN IF sc = "large" THEN [rate |-> at("1L"), label |-> "1L"]
             ELSE [rate |-> at("100ML"), label |-> "100ML"]
        ELSE [rate |-> at("UNIT"), label |-> "UNIT"]

(* ----------------------------- types.ts ------------------------------- *)

\* normalizedRates is <<>> when the property is absent, <<table>> when present
noRates == <<>>

\* the item handleCapture creates (imageUrl and brand are not modelled)
NewItem(id) ==
    [id |-> id, status |-> "analyzing", name |-> undefined, price |-> undefinedNum,
     quantity |-> undefinedNum, unit |-> undefined, category |-> undefined,
     normalizedRates |-> noRates, errorReason |-> undefined]

(* --------------------------- App: the ranking view -------------------- *)

\* getItemRate(item, currentScale)
getItemRate(item, currentScale) ==
    IF item.status # "complete" \/ item.normalizedRates = noRates THEN Infinity
    ELSE LET rates == item.normalizedRates[1]
             at(k) == IF k \in DOMAIN rates THEN rates[k] ELSE undefinedNum
             key == IF currentScale = "large"
                    THEN (IF item.category = "weight" THEN "1KG" ELSE "1L")
                    ELSE (IF item.category = "weight" THEN "100G" ELSE "100ML")
             rate == OrElse(at(key), at("UNIT"))
         IN  IF rate # undefinedNum THEN rate ELSE Infinity

\* compareFn with the signs of the two analyzing rules exchanged
compareFn_analyzingFirst(a, b, sc) ==
    IF a.status = "analyzing" /\ b.status # "analyzing" THEN Num(0 - 1)
    ELSE IF b.status = "analyzing" /\ a.status # "analyzing" THEN Num(1)
    ELSE IF a.status = "error" /\ b.status = "complete" THEN Num(1)
    ELSE IF b.status = "error" /\ a.status = "complete" THEN Num(0 - 1)
    ELSE Sub(getItemRate(a, sc), getItemRate(b, sc))

\* the comparator handed to Array.prototype.sort: a number, possibly NaN
compareFn(a, b, sc) ==
    IF a.status = "analyzing" /\ b.status # "analyzing" THEN Num(1)
    ELSE IF b.status = "analyzing" /\ a.status # "analyzing" THEN Num(0 - 1)
    ELSE IF a.status = "error" /\ b.status = "complete" THEN Num(1)
    ELSE IF b.status = "error" /\ a.status = "complete" THEN Num(0 - 1)
    ELSE Sub(getItemRate(a, sc), getItemRate(b, sc))

\* Array.prototype.sort reads the comparator's result by its sign; NaN counts as 0
SortCompare(a, b, sc) == SignInt(compareFn(a, b, sc)[1])

\* the stable sort: x goes behind the last element that does not sort after it
RECURSIVE InsertSorted(_, _, _)
InsertSorted(s, x, sc) ==
    IF s = <<>> THEN <<x>>
    ELSE IF SortCompare(s[Len(s)], x, sc) > 0
         THEN Append(InsertSorted(SubSeq(s, 1, Len(s) - 1), x, sc), s[Len(s)])
         ELSE Append(s, x)

RECURSIVE ArraySort(_, _)
ArraySort(s, sc) ==
    IF s = <<>> THEN <<>>
    ELSE InsertSorted(ArraySort(SubSeq(s, 1, Len(s) - 1), sc), s[Len(s)], sc)

\* Math.min of two numbers: NaN if either is NaN
Min2(a, b) == IF IsNaN(a) \/ IsNaN(b) THEN NaN ELSE IF Lt(b, a) THEN b ELSE a

\* Math.min(...rates) for a non-empty sequence
RECURSIVE MathMin(_)
MathMin(rates) ==
    IF Len(rates) = 1 THEN rates[1]
    ELSE Min2(MathMin(SubSeq(rates, 1, Len(rates) - 1)), rates[Len(rates)])

\* items.filter(i => i.status === 'complete')
RECURSIVE FilterComplete(_)
FilterComplete(s) ==
    IF s = <<>> THEN <<>>
    ELSE IF s[1].status = "complete" THEN <<s[1]>> \o FilterComplete(Tail(s))
         ELSE FilterComplete(Tail(s))

(* ------------------------------- state -------------------------------- *)

VARIABLES
    items,           \* App: the item collection, in insertion order
    isProcessing,    \* App: the processing flag
    scale,           \* App: "small" or "large"
    inflight,        \* the processSingleImage calls awaiting analyzeGroceryImage: [id, batch]
    nextId,          \* the next fresh item id (Math.random ids, taken to be distinct)
    isExpanded,      \* CameraView: the camera overlay is open
    pendingCapture   \* CameraView: a captured frame awaits confirm or retake

vars == <<items, isProcessing, scale, inflight, nextId, isExpanded, pendingCapture>>

(* --------------- what the vision collaborator may answer -------------- *)

Response(name, price, quantity, unit, category) ==
    [name |-> name, price |-> price, quantity |-> quantity, unit |-> unit,
     category |-> category]

\* JSON objects JSON.parse may return (src/services/geminiService.ts line 47): complete
\* ones (two weights, a volume, a count, two free items, a zero quantity), and ones
\* that lack a required field (price, unit, category)
AnalysisResponses ==
    { Response("RICE", Frac(5, 2), Num(100), "g", "weight"),
      Response("OATS", Num(1), Num(100), "g", "weight"),
      Response("MILK", Num(1), Num(1), "L", "volume"),
      Response("EGGS", Num(3), Num(12), "each", "count"),
      Response("SALT", Num(0), Num(100), "g", "weight"),
      Response("BAG", Num(0), Num(1), "each", "count"),
      Response("DUST", Num(1), Num(0), " Kg ", "weight"),
      Response("EGGS", undefinedNum, Num(12), "each", "count"),
      Response("EGGS", Num(3), Num(12), undefined, "count"),
      Response("EGGS", Num(3), Num(12), "each", undefined) }

NoResponse == Response(undefined, undefinedNum, undefinedNum, undefined, undefined)

\* how one call of analyzeGroceryImage ends: a parsed object, null (no text, or text
\* that does not parse), or a thrown API error
Outcomes ==
    { [kind |-> "json", analysis |-> r] : r \in AnalysisResponses }
    \cup { [kind |-> "null", analysis |-> NoResponse],
           [kind |-> "throw", analysis |-> NoResponse] }

(* ------------------------ App: the derived view ----------------------- *)

\* prev.map(f)
MapItems(prev, f(_)) == [i \in 1..Len(prev) |-> f(prev[i])]

Ids(s) == {s[i].id : i \in 1..Len(s)}

ItemOf(s, id) == s[CHOOSE i \in 1..Len(s) : s[i].id = id]

sortedItems == ArraySort(items, scale)

\* bestRate without the filter on status
bestRate_unfiltered ==
    LET rates == [i \in 1..Len(items) |-> getItemRate(items[i], scale)]
    IN  IF Len(rates) # 0 THEN MathMin(rates) ELSE nullNum

bestRate ==
    LET complete == FilterComplete(items)
        rates == [i \in 1..Len(complete) |-> getItemRate(complete[i], scale)]
    IN  IF Len(rates) # 0 THEN MathMin(rates) ELSE nullNum

\* !!isBest of the render loop
isBest(item) ==
    /\ item.status = "complete"
    /\ Truthy(bestRate)
    /\ Lt(Abs(Sub(getItemRate(item, scale), bestRate)), Frac(1, 10000))

\* percentageDiff of the render loop; undefinedNum when no value is handed on
percentageDiff(item) ==
    IF item.status = "complete" /\ Truthy(bestRate) /\ Gt(getItemRate(item, scale), bestRate)
    THEN Mul(Div(Sub(getItemRate(item, scale), bestRate), bestRate), Num(100))
    ELSE undefinedNum

(* ------------------------------ Init ---------------------------------- *)

Init ==
    /\ items = <<>>
    /\ isProcessing = FALSE
    /\ scale = "small"
    /\ inflight = {}
    /\ nextId = 1
    /\ isExpanded = FALSE
    /\ pendingCapture = FALSE

(* --------------------------- App handlers ----------------------------- *)

\* CompletePatch that forgets to store the rate table
CompletePatch_noRates(it, analysis) ==
    LET norm == getNormalizedData(analysis.price, analysis.quantity, analysis.unit)
    IN  [id |-> it.id,
         status |-> "complete",
         name |-> IF analysis.name # undefined THEN analysis.name ELSE it.name,
         price |-> IF analysis.price # undefinedNum THEN analysis.price ELSE it.price,
         quantity |-> IF analysis.quantity # undefinedNum THEN analysis.quantity
                      ELSE it.quantity,
         unit |-> toUpperCase(analysis.unit),
         category |-> norm.category,
         normalizedRates |-> noRates,
         errorReason |-> undefined]

\* the success patch of processSingleImage: {...it, ...analysis, unit, category,
\* normalizedRates, status, errorReason}
CompletePatch(it, analysis) ==
    LET norm == getNormalizedData(analysis.price, analysis.quantity, analysis.unit)
    IN  [id |-> it.id,
         status |-> "complete",
         name |-> IF analysis.name # undefined THEN analysis.name ELSE it.name,
         price |-> IF analysis.price # undefinedNum THEN analysis.price ELSE it.price,
         quantity |-> IF analysis.quantity # undefinedNum THEN analysis.quantity
                      ELSE it.quantity,
         unit |-> toUpperCase(analysis.unit),
         category |-> norm.category,
         normalizedRates |-> <<norm.rates>>,
         errorReason |-> undefined]

ErrorPatch(it, reason) == [it EXCEPT !.status = "error", !.errorReason = reason]

\* processSingleImageItems that re-appends the patched item behind the others
processSingleImageItems_reappend(prev, id, o) ==
    LET patched(it) ==
            IF o.kind = "json" /\ o.analysis.unit # undefined
            THEN CompletePatch(it, o.analysis)
            ELSE IF o.kind = "null"
            THEN ErrorPatch(it, "Could not identify price/unit. Try manual entry.")
            ELSE ErrorPatch(it, "Connection error. Check your API Key settings.")
    IN  SelectSeq(prev, LAMBDA it : it.id # id)
        \o MapItems(SelectSeq(prev, LAMBDA it : it.id = id), patched)

\* processSingleImageItems in which a thrown error fails every item still analyzing
processSingleImageItems_failBatch(prev, id, o) ==
    IF o.kind = "json" /\ o.analysis.unit # undefined
    THEN LET f(it) == IF it.id = id THEN CompletePatch(it, o.analysis) ELSE it
         IN  MapItems(prev, f)
    ELSE IF o.kind = "null"
    THEN LET f(it) == IF it.id = id
                      THEN ErrorPatch(it, "Could not identify price/unit. Try manual entry.")
                      ELSE it
         IN  MapItems(prev, f)
    ELSE LET f(it) == IF it.id = id \/ it.status = "analyzing"
                      THEN ErrorPatch(it, "Connection error. Check your API Key settings.")
                      ELSE it
         IN  MapItems(prev, f)

\* processSingleImageItems that adds the item when its id is no longer in the collection
processSingleImageItems_upsert(prev, id, o) ==
    LET patched(it) ==
            IF o.kind = "json" /\ o.analysis.unit # undefined
            THEN CompletePatch(it, o.analysis)
            ELSE IF o.kind = "null"
            THEN ErrorPatch(it, "Could not identify price/unit. Try manual entry.")
            ELSE ErrorPatch(it, "Connection error. Check your API Key settings.")
        f(it) == IF it.id = id THEN patched(it) ELSE it
    IN  IF id \in Ids(prev) THEN MapItems(prev, f)
        ELSE Append(prev, patched(NewItem(id)))

\* the items after processSingleImage(id) has seen outcome o
processSingleImageItems(prev, id, o) ==
    IF o.kind = "json" /\ o.analysis.unit # undefined
    THEN LET f(it) == IF it.id = id THEN CompletePatch(it, o.analysis) ELSE it
         IN  MapItems(prev, f)
    ELSE IF o.kind = "null"
    THEN LET f(it) == IF it.id = id
                      THEN ErrorPatch(it, "Could not identify price/unit. Try manual entry.")
                      ELSE it
         IN  MapItems(prev, f)
    ELSE LET f(it) == IF it.id = id
                      THEN ErrorPatch(it, "Connection error. Check your API Key settings.")
                      ELSE it
         IN  MapItems(prev, f)

\* processSingleImage after which handleCapture never clears the flag
processSingleImage_flagKept(r, o) ==
    /\ r \in inflight
    /\ inflight' = inflight \ {r}
    /\ items' = processSingleImageItems(items, r.id, o)
    /\ isProcessing' = isProcessing
    /\ UNCHANGED <<scale, nextId, isExpanded, pendingCapture>>

\* one analysis answers: the rest of processSingleImage runs, and when it was the last
\* of its batch, Promise.all settles and handleCapture clears the flag
processSingleImage(r, o) ==
    /\ r \in inflight
    /\ inflight' = inflight \ {r}
    /\ items' = processSingleImageItems(items, r.id, o)
    /\ isProcessing' = IF \E q \in inflight \ {r} : q.batch = r.batch
                       THEN isProcessing ELSE FALSE
    /\ UNCHANGED <<scale, nextId, isExpanded, pendingCapture>>

\* handleCapture(base64Array) up to its await, for n images
handleCapture(n) ==
    /\ nextId + n - 1 <= MaxItems
    /\ isProcessing' = TRUE
    /\ items' = items \o [i \in 1..n |-> NewItem(nextId + i - 1)]
    /\ inflight' = inflight \cup {[id |-> nextId + i - 1, batch |-> nextId] : i \in 1..n}
    /\ nextId' = nextId + n
    /\ UNCHANGED scale

updateItem(id, updates) ==
    LET f(it) == IF it.id = id
                 THEN [k \in DOMAIN it |-> IF k \in DOMAIN updates THEN updates[k] ELSE it[k]]
                 ELSE it
    IN  items' = MapItems(items, f)

removeItem(id) == items' = SelectSeq(items, LAMBDA it : it.id # id)

\* handleReset that also puts the scale back to its initial value
handleReset_resetScale ==
    /\ Len(items) > 0
    /\ items' = <<>>
    /\ scale' = "small"
    /\ UNCHANGED <<isProcessing, inflight, nextId, isExpanded, pendingCapture>>

handleReset ==
    /\ Len(items) > 0
    /\ items' = <<>>
    /\ UNCHANGED <<isProcessing, scale, inflight, nextId, isExpanded, pendingCapture>>

toggleScale == scale' = IF scale = "small" THEN "large" ELSE "small"

(* ------------------------- PriceCard handlers ------------------------- *)

\* what the user may have typed into the form: name, parseFloat(price),
\* parseFloat(quantity), unit
Form(name, price, quantity, unit) ==
    [name |-> name, price |-> price, quantity |-> quantity, unit |-> unit]

Forms ==
    { Form("rice", Frac(5, 2), Num(100), "g"),
      Form("dust", Num(1), Num(0), " Kg "),
      Form("", Num(3), Num(1), "kg"),
      Form("rice", NaN, Num(1), "kg"),
      Form("rice", Num(3), NaN, "kg"),
      Form("rice", Num(3), Num(1), "") }

\* FormShown that also offers the form on the card of an item still analyzing
FormShown_whileAnalyzing(id) == \E i \in 1..Len(items) : items[i].id = id

\* the form is rendered for an item that is not analyzing (status error, or after the
\* pen button set isEditing)
FormShown(id) == \E i \in 1..Len(items) : items[i].id = id /\ items[i].status # "analyzing"

\* the card of a complete item (pen, trash and scale buttons)
CardShown(id) == \E i \in 1..Len(items) : items[i].id = id /\ items[i].status = "complete"

\* handleManualSubmit whose validation forgets the name
handleManualSubmit_nameUnchecked(id, form) ==
    LET name == toUpperCase(form.name)
        price == form.price
        qty == form.quantity
        unit == toUpperCase(form.unit)
    IN  /\ FormShown(id)
        /\ IF ~IsNaN(price) /\ ~IsNaN(qty) /\ unit # ""
           THEN LET norm == getNormalizedData(price, qty, unit)
                IN  updateItem(id, [name |-> name, price |-> price, quantity |-> qty,
                                    unit |-> unit, category |-> norm.category,
                                    normalizedRates |-> <<norm.rates>>,
                                    status |-> "complete", errorReason |-> undefined])
           ELSE UNCHANGED items
        /\ UNCHANGED <<isProcessing, scale, inflight, nextId, isExpanded,
                       pendingCapture>>

handleManualSubmit(id, form) ==
    LET name == toUpperCase(form.name)
        price == form.price
        qty == form.quantity
        unit == toUpperCase(form.unit)
    IN  /\ FormShown(id)
        /\ IF name # "" /\ ~IsNaN(price) /\ ~IsNaN(qty) /\ unit # ""
           THEN LET norm == getNormalizedData(price, qty, unit)
                IN  updateItem(id, [name |-> name, price |-> price, quantity |-> qty,
                                    unit |-> unit, category |-> norm.category,
                                    normalizedRates |-> <<norm.rates>>,
                                    status |-> "complete", errorReason |-> undefined])
           ELSE UNCHANGED items
        /\ UNCHANGED <<isProcessing, scale, inflight, nextId, isExpanded,
                       pendingCapture>>

\* the trash button of a complete card, or the X of the repair form of a failed item
onRemove(id) ==
    /\ FormShown(id)
    /\ removeItem(id)
    /\ UNCHANGED <<isProcessing, scale, inflight, nextId, isExpanded, pendingCapture>>

\* the normalized-price button of a complete card
onToggleScale ==
    /\ \E id \in Ids(items) : CardShown(id)
    /\ toggleScale
    /\ UNCHANGED <<items, isProcessing, inflight, nextId, isExpanded, pendingCapture>>

(* ------------------------- CameraView handlers ------------------------ *)

\* the collapsed card is disabled while processing; the X of the live view is not
handleToggle ==
    /\ IF isExpanded THEN ~pendingCapture ELSE ~isProcessing
    /\ isExpanded' = ~isExpanded
    /\ pendingCapture' = IF isExpanded THEN FALSE ELSE pendingCapture
    /\ UNCHANGED <<items, isProcessing, scale, inflight, nextId>>

\* the shutter button, disabled while processing
capture ==
    /\ isExpanded
    /\ ~pendingCapture
    /\ ~isProcessing
    /\ pendingCapture' = TRUE
    /\ UNCHANGED <<items, isProcessing, scale, inflight, nextId, isExpanded>>

handleRetake ==
    /\ isExpanded
    /\ pendingCapture
    /\ pendingCapture' = FALSE
    /\ UNCHANGED <<items, isProcessing, scale, inflight, nextId, isExpanded>>

handleConfirm ==
    /\ isExpanded
    /\ pendingCapture
    /\ handleCapture(1)
    /\ pendingCapture' = FALSE
    /\ UNCHANGED isExpanded

\* the file picker of the live view, with n >= 1 files
handleFileChange(n) ==
    /\ isExpanded
    /\ ~pendingCapture
    /\ handleCapture(n)
    /\ isExpanded' = FALSE
    /\ pendingCapture' = FALSE

(* ------------------------------- Next --------------------------------- *)

Next ==
    \/ handleToggle
    \/ capture
    \/ handleRetake
    \/ handleConfirm
    \/ \E n \in 1..MaxBatch : handleFileChange(n)
    \/ \E r \in inflight : \E o \in Outcomes : processSingleImage(r, o)
    \/ \E id \in Ids(items) : \E form \in Forms : handleManualSubmit(id, form)
    \/ \E id \in Ids(items) : onRemove(id)
    \/ handleReset
    \/ onToggleScale

Spec == Init /\ [][Next]_vars

\* the collaborator answers one of the requests in flight
\* (the call rejects or resolves to null, or it resolves to a parsed object)
Answered ==
    \E r \in inflight :
        \/ \E o \in {x \in Outcomes : x.kind # "json"} : processSingleImage(r, o)
        \/ \E o \in {x \in Outcomes : x.kind = "json"} : processSingleImage(r, o)

\* the program with a collaborator that eventually answers: while a call of
\* analyzeGroceryImage is awaited, one of the awaited calls eventually resolves or
\* rejects (a request stays in flight until it is answered, so this follows from
\* every request being answered)
FairSpec == Spec /\ WF_vars(Answered)

(* ------------- the normalizer on one item, over many inputs ----------- *)

\* prices, quantities and unit strings the collaborator or the form may supply: every
\* synonym of the unit table, some in other letter case or with surrounding blanks,
\* and strings the table does not know
Prices == {Num(0), Num(1), Frac(5, 2), Num(3)}

Quantities == {Num(0), Frac(1, 2), Num(1), Num(12), Num(100)}

UnitStrings ==
    {"g", "gram", "grams", "kg", "kilogram", "kilograms", "kilo", "oz", "ounce",
     "ounces", "lb", "lbs", "pound", "pounds", "ml", "milliliter", "milliliters", "l",
     "liter", "liters", "litre", "fl oz", "floz", "fluid ounce", " Kg ", "L", "Fl Oz",
     "Lbs", "each", "bunch", "kgs", ""}

\* the state right after one image was handed to handleCapture
InitNormalizer ==
    /\ items = <<NewItem(1)>>
    /\ isProcessing = TRUE
    /\ scale = "small"
    /\ inflight = {[id |-> 1, batch |-> 1]}
    /\ nextId = 2
    /\ isExpanded = FALSE
    /\ pendingCapture = FALSE

\* the analysis answers with a full response, the form is submitted, the scale toggled
NextNormalizer ==
    \/ \E p \in Prices : \E q \in Quantities : \E u \in UnitStrings :
          processSingleImage([id |-> 1, batch |-> 1],
                             [kind |-> "json",
                              analysis |-> Response("ITEM", p, q, u, "count")])
    \/ \E p \in Prices : \E q \in Quantities : \E u \in UnitStrings :
          handleManualSubmit(1, Form("item", p, q, u))
    \/ onToggleScale

SpecNormalizer == InitNormalizer /\ [][NextNormalizer]_vars

TypeOK ==
    /\ isProcessing \in BOOLEAN
    /\ scale \in {"small", "large"}
    /\ nextId \in 1..(MaxItems + 1)
    /\ \A i \in 1..Len(items) : items[i].status \in {"analyzing", "error", "complete"}

(* ====================== the claims, C1 to C10 ========================= *)

\* the band of a status in the sorted view: ready, then failed, then pending
Band(status) ==
    CASE status = "complete" -> 0
      [] status = "error" -> 1
      [] status = "analyzing" -> 2

HasStatus(st) == \E i \in 1..Len(items) : items[i].status = st

Key(it) == getItemRate(it, scale)

ReadyKeys == {Key(items[i]) : i \in {j \in 1..Len(items) : items[j].status = "complete"}}

\* C1: in the sorted view every ready item precedes every failed item and every
\* failed item precedes every pending item, whatever the rates and the scale.
C1_StatusBands ==
    LET s == sortedItems
    IN  \A i, j \in 1..Len(s) : i < j => Band(s[i].status) <= Band(s[j].status)

\* C1 witness: all three statuses are present and the sort had to move an item.
C1_Witness ==
    /\ HasStatus("complete")
    /\ HasStatus("error")
    /\ HasStatus("analyzing")
    /\ sortedItems # items

\* C2 (the claim as stated): no ready item precedes, in the sorted view, a ready
\* item with a strictly smaller sort key.
C2_ReadyAscending ==
    LET s == sortedItems
    IN  \A i, j \in 1..Len(s) :
            (i < j /\ s[i].status = "complete" /\ s[j].status = "complete")
            => ~Lt(Key(s[j]), Key(s[i]))

\* C3: the best rate is the minimum (Math.min: NaN if a key is NaN) of the sort keys
\* of the ready items only, and null when there is no ready item.
C3_BestRateIsMinOfReady ==
    LET b == bestRate
        keys == ReadyKeys
    IN  IF keys = {} THEN b = nullNum
        ELSE IF NaN \in keys THEN b = NaN
        ELSE b \in keys /\ \A k \in keys : ~Lt(k, b)

\* C3 witness: two ready items with different finite keys beside an item that is not
\* ready; the best rate is the smaller key.
C3_Witness ==
    /\ HasStatus("error") \/ HasStatus("analyzing")
    /\ Cardinality(ReadyKeys) >= 2
    /\ \A k \in ReadyKeys : IsFinite(k)
    /\ IsFinite(bestRate)

\* C4 (the claim as stated): a ready item whose finite key is within 1e-4 of the
\* finite best rate is flagged best and gets no percentage excess.
C4_TieIsBestWithoutExcess ==
    \A i \in 1..Len(items) :
        (/\ items[i].status = "complete"
         /\ IsFinite(Key(items[i]))
         /\ IsFinite(bestRate)
         /\ Lt(Abs(Sub(Key(items[i]), bestRate)), Frac(1, 10000)))
        => /\ isBest(items[i])
           /\ percentageDiff(items[i]) = undefinedNum

\* C5 (the claim as stated): a ready item whose finite key k is strictly greater
\* than the finite best rate b gets the excess e with e = (k - b) / b * 100, that is
\* e * b = (k - b) * 100 when b > 0 and e = +Infinity when b = 0.
C5_ExcessFormula ==
    \A i \in 1..Len(items) :
        (/\ items[i].status = "complete"
         /\ IsFinite(Key(items[i]))
         /\ IsFinite(bestRate)
         /\ Gt(Key(items[i]), bestRate))
        => LET e == percentageDiff(items[i])
           IN  /\ e # undefinedNum
               /\ IF bestRate = Num(0) THEN e = Infinity
                  ELSE Mul(e, bestRate) = Mul(Sub(Key(items[i]), bestRate), Num(100))

\* C6 (the claim as stated): an item that is not ready, or whose key is infinite,
\* gets no percentage excess and is not flagged best.
C6_NoExcessWithoutFiniteKey ==
    \A i \in 1..Len(items) :
        (items[i].status # "complete" \/ ~IsFinite(Key(items[i])))
        => /\ percentageDiff(items[i]) = undefinedNum
           /\ ~isBest(items[i])

\* the denomination the scale selects for a category
Denomination(category, sc) ==
    CASE category = "weight" -> (IF sc = "large" THEN "1KG" ELSE "100G")
      [] category = "volume" -> (IF sc = "large" THEN "1L" ELSE "100ML")
      [] OTHER -> "UNIT"

\* C7 (the claim as stated): for a ready item whose table holds a finite rate >= 0
\* under the scale-mapped denomination, getItemRate returns exactly that rate (so it
\* returns +Infinity only without such an entry).
C7_KeyIsMappedRate ==
    \A i \in 1..Len(items) : \A sc \in {"small", "large"} :
        (/\ items[i].status = "complete"
         /\ items[i].normalizedRates # noRates
         /\ Denomination(items[i].category, sc) \in DOMAIN items[i].normalizedRates[1]
         /\ IsFinite(items[i].normalizedRates[1][Denomination(items[i].category, sc)]))
        => getItemRate(items[i], sc)
             = items[i].normalizedRates[1][Denomination(items[i].category, sc)]

\* C8: in every reachable state, the completion of any analysis in flight, with any
\* outcome, leaves every other item and the order of the collection unchanged, and
\* the item it writes is determined by that item and the outcome alone (it is the
\* same when the completion is applied to the item on its own).  Completions for
\* different ids therefore give the same collection in every order of arrival.
C8_CompletionsIsolatedAndCommute ==
    \A r \in inflight : \A o \in Outcomes :
        LET after == processSingleImageItems(items, r.id, o)
        IN  /\ Len(after) = Len(items)
            /\ \A j \in 1..Len(items) :
                  IF items[j].id = r.id
                  THEN after[j] = processSingleImageItems(<<items[j]>>, r.id, o)[1]
                  ELSE after[j] = items[j]

\* C8 witness: completions arrived out of order: a later item has its result while
\* an earlier one is still analyzing, its analysis in flight.
C8_Witness ==
    \E r \in inflight : \E i, j \in 1..Len(items) :
        /\ items[j].id = r.id
        /\ items[j].status = "analyzing"
        /\ items[i].id > r.id
        /\ items[i].status # "analyzing"

\* C9: when a completion leaves its item failed, every other item is unchanged, every
\* sibling analysis stays in flight, and the processing flag is cleared exactly when
\* no sibling of the batch is left in flight.
C9_FailureIsScopedToItsItem ==
    [][ \A r \in inflight :
          (/\ r \notin inflight'
           /\ \E j \in 1..Len(items') : items'[j].id = r.id /\ items'[j].status = "error")
          => /\ inflight' = inflight \ {r}
             /\ Len(items') = Len(items)
             /\ \A j \in 1..Len(items) : items[j].id # r.id => items'[j] = items[j]
             /\ (\A q \in inflight' : q.batch # r.batch) => ~isProcessing'
             /\ (\E q \in inflight' : q.batch = r.batch) => isProcessing' = isProcessing
      ]_vars

\* C9 witness: an item of a batch has failed while a later sibling of the same batch
\* is still in flight, and the flag is still raised.
C9_Witness ==
    /\ isProcessing
    /\ \E r \in inflight : \E i \in 1..Len(items) :
          /\ items[i].status = "error"
          /\ r.batch <= items[i].id
          /\ items[i].id < r.id

\* an outcome that is a failure, an empty or unparseable response, or a structured
\* response lacking a required field
FailureOutcome(o) ==
    \/ o.kind # "json"
    \/ o.analysis.name = undefined
    \/ o.analysis.price = undefinedNum
    \/ o.analysis.quantity = undefinedNum
    \/ o.analysis.unit = undefined
    \/ o.analysis.category = undefined

\* C10 (the claim as stated): whatever failure outcome an analysis in flight gets,
\* its item ends failed, with a reason and without a rate table.
C10_FailureOutcomeFailsItem ==
    \A r \in inflight : \A o \in Outcomes :
        (FailureOutcome(o) /\ r.id \in Ids(items))
        => LET it == ItemOf(processSingleImageItems(items, r.id, o), r.id)
           IN  /\ it.status = "error"
               /\ it.errorReason # undefined
               /\ it.normalizedRates = noRates

(* ====================== the claims, C11 to C20 ======================== *)

\* a form the validation of the manual entry must reject
InvalidForm(form) ==
    \/ form.name = ""
    \/ IsNaN(form.price)
    \/ IsNaN(form.quantity)
    \/ form.unit = ""

\* C11: a manual submission with an empty name, a price or quantity that is not a
\* number, or an empty unit leaves the item collection and the scale unchanged (the
\* normalizer's result would show as a new rate table on the item): no step that
\* changes the collection or the scale is such a submission.
C11_InvalidSubmitChangesNothing ==
    [][ ((items' # items \/ scale' # scale) /\ UNCHANGED <<inflight, nextId>>)
        => \A id \in Ids(items) : \A form \in Forms :
              InvalidForm(form) => ~handleManualSubmit(id, form)
      ]_vars

\* C11 witness: the repair form of a failed item is open beside a ready item, so an
\* invalid submission can be, and has been, made without a trace.
C11_Witness ==
    \E i, j \in 1..Len(items) :
        /\ items[i].status = "error"
        /\ items[i].normalizedRates = noRates
        /\ items[j].status = "complete"
        /\ FormShown(items[i].id)

\* C12 (the claim as stated): no ready item has a quantity that is zero or negative.
C12_ReadyQuantityPositive ==
    \A i \in 1..Len(items) :
        (items[i].status = "complete" /\ IsFinite(items[i].quantity))
        => Gt(items[i].quantity, Num(0))

\* C13: an item has a rate table if and only if its status is ready.
C13_RatesIffReady ==
    \A i \in 1..Len(items) :
        (items[i].normalizedRates # noRates) <=> (items[i].status = "complete")

\* C13 witness: a ready item with its table beside a failed item, with a reason and
\* no table, and a pending item.
C13_Witness ==
    \E i, j, k \in 1..Len(items) :
        /\ items[i].status = "complete" /\ items[i].normalizedRates # noRates
        /\ items[j].status = "error" /\ items[j].errorReason # undefined
        /\ items[k].status = "analyzing"

\* C14: a step that changes the scale flips it between small and large and changes
\* nothing of the item collection, the analyses in flight or the processing flag; so
\* every step that changes any of those leaves the scale unchanged.
C14_ScaleFrame ==
    [][ scale' # scale
        => /\ scale' = (IF scale = "small" THEN "large" ELSE "small")
           /\ UNCHANGED <<items, isProcessing, inflight, nextId>>
      ]_vars

\* C14 witness: the scale has been toggled to large over a collection holding a
\* ready item and another item.
C14_Witness ==
    /\ scale = "large"
    /\ Len(items) >= 2
    /\ HasStatus("complete")


\* C15: every step keeps the life cycle of an item: an item new to the collection is
\* pending and its analysis is requested in the same step, under an id never used
\* before (so at most once); an item that is not pending never becomes pending; an
\* item leaves pending only in the step in which its own analysis completes; and a
\* completion only ever meets an item that is still pending.
C15_PendingLeftOnceByOwnCompletion ==
    [][ /\ nextId' >= nextId
        /\ \A r \in inflight' \ inflight : r.id >= nextId /\ r.id < nextId'
        /\ \A j \in 1..Len(items') :
              items'[j].id \notin Ids(items)
              => /\ items'[j].status = "analyzing"
                 /\ \E r \in inflight' \ inflight : r.id = items'[j].id
        /\ \A i \in 1..Len(items) : \A j \in 1..Len(items') :
              items[i].id = items'[j].id
              => /\ items[i].status # "analyzing" => items'[j].status # "analyzing"
                 /\ (items[i].status = "analyzing" /\ items'[j].status # "analyzing")
                    => \E r \in inflight \ inflight' : r.id = items[i].id
        /\ \A r \in inflight \ inflight' : \A i \in 1..Len(items) :
              items[i].id = r.id => items[i].status = "analyzing"
      ]_vars

\* C15 witness: one item has left pending (its analysis no longer in flight) and
\* shows its form or card, while another is still pending with its analysis in flight.
C15_Witness ==
    \E i, j \in 1..Len(items) :
        /\ items[i].status # "analyzing"
        /\ \A r \in inflight : r.id # items[i].id
        /\ items[j].status = "analyzing"
        /\ \E r \in inflight : r.id = items[j].id

\* the synonym table of the normalizer, by group
WeightSynonyms ==
    {"g", "gram", "grams", "kg", "kilogram", "kilograms", "kilo", "oz", "ounce",
     "ounces", "lb", "lbs", "pound", "pounds"}

VolumeSynonyms ==
    {"ml", "milliliter", "milliliters", "l", "liter", "liters", "litre", "fl oz", "floz",
     "fluid ounce"}

\* C16 (the claim as stated): the item an answer or a submission with a string unit
\* produces is never failed; its category is weight for a weight synonym and volume
\* for a volume synonym, whatever the letter case and surrounding blanks; for every
\* other unit string it is count with rate(UNIT) = price / quantity and
\* rate(DOZEN) = rate(UNIT) * 12.
C16_UnrecognizedUnitIsCount ==
    \A i \in 1..Len(items) :
        /\ items[i].status # "error"
        /\ items[i].status = "complete"
           => LET it == items[i]
                  u == trim(toLowerCase(it.unit))
                  rates == it.normalizedRates[1]
              IN  IF u \in WeightSynonyms THEN it.category = "weight"
                  ELSE IF u \in VolumeSynonyms THEN it.category = "volume"
                  ELSE /\ it.category = "count"
                       /\ DOMAIN rates = {"UNIT", "DOZEN"}
                       /\ rates["UNIT"] = Div(it.price, it.quantity)
                       /\ rates["DOZEN"] = Mul(rates["UNIT"], Num(12))

\* grams in one unit of a weight synonym, millilitres in one unit of a volume synonym
GramsPerUnit(u) ==
    CASE u \in {"g", "gram", "grams"} -> Num(1)
      [] u \in {"kg", "kilogram", "kilograms", "kilo"} -> Num(1000)
      [] u \in {"oz", "ounce", "ounces"} -> Frac(283495, 10000)
      [] u \in {"lb", "lbs", "pound", "pounds"} -> Frac(453592, 1000)

MlPerUnit(u) ==
    CASE u \in {"ml", "milliliter", "milliliters"} -> Num(1)
      [] u \in {"l", "liter", "liters", "litre"} -> Num(1000)
      [] u \in {"fl oz", "floz", "fluid ounce"} -> Frac(295735, 10000)

Pending(id) == \E i \in 1..Len(items) : items[i].id = id /\ items[i].status = "analyzing"

\* C18: when the requests are eventually answered, no item stays pending forever
\* (from every state on, item id is eventually ready, failed or gone) and the
\* processing flag is never raised forever.
C18_PendingEventuallySettles ==
    /\ \A id \in 1..MaxItems : []<>~Pending(id)
    /\ []<>~isProcessing

\* C18 witness: a batch has run to its end with both results: a ready and a failed
\* item, nothing in flight and the flag cleared.
C18_Witness ==
    /\ ~isProcessing
    /\ inflight = {}
    /\ HasStatus("complete")
    /\ HasStatus("error")
    /\ ~HasStatus("analyzing")

\* C19 (the claim as stated): for every ready item and either scale, the sort key
\* getItemRate equals the rate getDisplayRate selects from the item's rate table.
C19_KeyIsDisplayedRate ==
    \A i \in 1..Len(items) : \A sc \in {"small", "large"} :
        (items[i].status = "complete" /\ items[i].normalizedRates # noRates)
        => getItemRate(items[i], sc)
             = getDisplayRate(items[i].normalizedRates[1], sc, items[i].category).rate

\* C20: a step in which the analysis of an id that is no longer in the collection
\* completes leaves the collection unchanged.
C20_LateCompletionChangesNothing ==
    [][ \A r \in inflight :
          (r.id \notin Ids(items) /\ inflight' = inflight \ {r}) => items' = items
      ]_vars

\* C20 witness: after a Reset during processing, an analysis of a removed item is
\* still in flight and another has already arrived, while the collection holds a
\* newer item.
C20_Witness ==
    /\ Len(items) > 0
    /\ \E r \in inflight : r.id \notin Ids(items)
    /\ \E id \in 1..(nextId - 1) :
          id \notin Ids(items) /\ \A r \in inflight : r.id # id

(* ============================ the claim C21 ============================ *)

\* C21 (the claim as stated): whenever an item of the collection is pending, the
\* processing flag is raised.
C21_PendingImpliesProcessing ==
    HasStatus("analyzing") => isProcessing

====
